---- MODULE Spec2Model ----
(***************************************************************************)
(* Model of exonum/src/events/network.rs: the request dispatcher, the      *)
(* outgoing connections pool with its per-peer connection tasks, and the   *)
(* incoming connections server of NetworkPart::run.                        *)
(*                                                                         *)
(* Everything runs on one tokio_core reactor thread: every closure body    *)
(* and every future poll is one atomic action.  Futures handed to          *)
(* handle.spawn run later, in an order the reactor chooses.                *)
(***************************************************************************)
EXTENDS Naturals, Sequences, FiniteSets

\* ---------------------------------------------------------------- bounds
NumPeers == 2
MaxRetries == 1
MaxTasks == 2
MaxSends == 2
MaxInLimit == 1
MaxSockets == 2
MaxFrames == 3
MaxTimeout == 2

Peers == 1..NumPeers
SocketIds == 1..MaxSockets

\* RawMessage frames as MessagesCodec yields them: a Connect message, another
\* well-formed message, and a frame that Any::from_raw cannot parse.
RawMessages == {"Connect", "Status", "Malformed"}

\* ---------------------------------------------------------------- state
VARIABLES
    outgoing_connections_limit,   \* network_config.max_outgoing_connections
    incoming_connections_limit,   \* network_config.max_incoming_connections
    max_tries,                    \* network_config.tcp_connect_max_retries
    outgoing_connections,         \* ConnectionsPool: peer -> its task that owns the channel, 0 = no entry
    connect_handle,               \* the spawned outgoing connection tasks, by peer
    step,                         \* the request or frame handled by the last step
    handler_alive,                \* the receiver of network_tx still exists
    incoming_connections_counter, \* Rc::weak_count of the incoming census
    server,                       \* position of the listener closure
    connection_handler,           \* accepted sockets and their tasks, by id
    cancel,                       \* () signals buffered in the cancel channel
    core                          \* "running", "blocked" (thread stuck in wait()), "stopped"

vars == <<outgoing_connections_limit, incoming_connections_limit, max_tries,
          outgoing_connections, connect_handle, step,
          handler_alive, incoming_connections_counter, server,
          connection_handler, cancel, core>>

configVars == <<outgoing_connections_limit, incoming_connections_limit, max_tries>>
outVars == <<outgoing_connections, connect_handle>>
inVars == <<incoming_connections_counter, server, connection_handler>>
runVars == <<cancel, core>>

\* ---------------------------------------------------------------- events
MessageReceived(addr, raw) == <<"MessageReceived", addr, raw>>
PeerConnected(addr, connect) == <<"PeerConnected", addr, connect>>
PeerDisconnected(addr) == <<"PeerDisconnected", addr>>

\* What a step handled: a NetworkRequest with the send_event future it spawned
\* (<<>> when it spawned none), a frame decoded by an outgoing reader, the end
\* of an outgoing connection task or of a connection_handler with its result,
\* a failed connect attempt with the delay before the next one, or anything
\* else.
NoEvent == <<>>
SendMessage(peer, spawned) ==
    [type |-> "SendMessage", peer |-> peer, spawned |-> spawned, res |-> "", delay |-> 0]
DisconnectWithPeer(peer, spawned) ==
    [type |-> "DisconnectWithPeer", peer |-> peer, spawned |-> spawned, res |-> "", delay |-> 0]
Shutdown == [type |-> "Shutdown", peer |-> 0, spawned |-> NoEvent, res |-> "", delay |-> 0]
Decoded(peer) == [type |-> "Decoded", peer |-> peer, spawned |-> NoEvent, res |-> "", delay |-> 0]
Closed(peer, res) == [type |-> "Closed", peer |-> peer, spawned |-> NoEvent, res |-> res, delay |-> 0]
Exited(addr, res) == [type |-> "Exited", peer |-> addr, spawned |-> NoEvent, res |-> res, delay |-> 0]
Delayed(peer, delay) ==
    [type |-> "Delayed", peer |-> peer, spawned |-> NoEvent, res |-> "", delay |-> delay]
Other == [type |-> "Other", peer |-> 0, spawned |-> NoEvent, res |-> "", delay |-> 0]

\* ------------------------------------------------------- ConnectionsPool
\* An entry holds the Sender of one channel: the channel of the peer's gen-th
\* connection task.
NoEntry == 0

PoolInsert(pool, peer, gen) == [pool EXCEPT ![peer] = gen]

PoolRemove(pool, peer) == [pool EXCEPT ![peer] = NoEntry]

\* A lookup that never finds the entry.
PoolGetMisses(pool, peer) == NoEntry

PoolGet(pool, peer) == pool[peer]

PoolLen(pool) == Cardinality({p \in Peers : pool[p] # NoEntry})

\* ------------------------------------------------ outgoing connection task
\* connect_handle[peer] lists the connection tasks spawned for the peer, oldest
\* first.  pc: "connect" Retry runs TcpStream::connect (or waits to run it again)
\*             "pump"    reader.select2(writer) running
\*             "closed"  the task has completed
\* A message is named by its position among the SendMessage requests handed
\* to this channel: `sent` counts them, `senders` holds the spawned send_handle
\* futures not yet polled, `conn_rx` the channel's queue, `sink` the message
\* written to the socket last (0 before the first write), `events` what the
\* task has sent on network_tx.
NewTask == [pc |-> "connect", retries |-> 0, sent |-> 0, senders |-> {},
            conn_rx |-> <<>>, sink |-> 0, events |-> <<>>]

Gens == 1..MaxTasks

Spawned(peer) == DOMAIN connect_handle[peer]

RECURSIVE Count(_, _)
Count(f, n) == IF n = 0 THEN 0 ELSE Len(f[n]) + Count(f, n - 1)

\* The number of connection tasks spawned so far.
SpawnedTasks == Count(connect_handle, NumPeers)

Alive(t) == t.pc \in {"connect", "pump"}

\* Sender handles of a channel: the pool's clone and one per unpolled send_handle.
Senders(peer, gen) ==
    (IF outgoing_connections[peer] = gen THEN 1 ELSE 0)
        + Cardinality(connect_handle[peer][gen].senders)

Running == core = "running" /\ server.pc = "listen"

\* ------------------------------------------------------ request dispatcher
\* Peer addresses are interchangeable, so they are numbered in the order of
\* their first connection task: a request names a peer that has had a task,
\* or the first peer that has had none.
Addressable == {p \in Peers : \A q \in 1..(p - 1) : connect_handle[q] # <<>>}

\* The limit check with `>` for `>=`.
LimitExceeded(pool, limit) == PoolLen(pool) > limit

\* `outgoing_connections.len() >= outgoing_connections_limit`
LimitReached(pool, limit) == PoolLen(pool) >= limit

\* A dispatcher that puts the message into the channel itself.
SendInline(t) ==
    [t EXCEPT !.sent = @ + 1, !.conn_rx = Append(@, t.sent + 1)]

\* conn_tx.send(msg) spawned as send_handle on the channel of task t.
SpawnSendHandle(t) ==
    [t EXCEPT !.sent = @ + 1, !.senders = @ \cup {t.sent + 1}]

\* A rejection that tells the handler nothing.
RejectedSilently(peer) == NoEvent

\* The limit rejection: Self::send_event(PeerDisconnected(peer)); return Ok(())
Rejected(peer) == PeerDisconnected(peer)

HandleSendMessage(peer) ==
    /\ Running
    /\ IF PoolGet(outgoing_connections, peer) # NoEntry
       THEN LET gen == PoolGet(outgoing_connections, peer) IN
            /\ connect_handle[peer][gen].sent < MaxSends
            /\ step' = SendMessage(peer, NoEvent)
            /\ connect_handle' =
                   [connect_handle EXCEPT ![peer][gen] = SpawnSendHandle(@)]
            /\ UNCHANGED outgoing_connections
       ELSE IF LimitReached(outgoing_connections, outgoing_connections_limit)
       THEN /\ step' = SendMessage(peer, Rejected(peer))
            /\ UNCHANGED outVars
       ELSE /\ SpawnedTasks < MaxTasks
            /\ step' = SendMessage(peer, NoEvent)
            /\ outgoing_connections' =
                   PoolInsert(outgoing_connections, peer, Len(connect_handle[peer]) + 1)
            /\ connect_handle' = [connect_handle EXCEPT ![peer] =
                   Append(@, SpawnSendHandle(NewTask))]
    /\ UNCHANGED <<configVars, handler_alive, inVars, runVars>>

\* A disconnect that reports only an entry it has removed.
DisconnectedIfEntry(pool, peer) ==
    IF PoolGet(pool, peer) # NoEntry THEN PeerDisconnected(peer) ELSE NoEvent

\* Self::send_event(PeerDisconnected(peer)), whatever the pool held.
Disconnected(pool, peer) == PeerDisconnected(peer)

HandleDisconnectWithPeer(peer) ==
    /\ Running
    /\ step' = DisconnectWithPeer(peer, Disconnected(outgoing_connections, peer))
    /\ outgoing_connections' = PoolRemove(outgoing_connections, peer)
    /\ UNCHANGED connect_handle
    /\ UNCHANGED <<configVars, handler_alive, inVars, runVars>>

\* ------------------------------------------------ outgoing connection task
TaskFrame == UNCHANGED <<configVars, handler_alive, inVars, runVars>>

\* A teardown that leaves the pool as it is.
TeardownKeepsEntry(pool, peer) == pool

\* The .then(..) closure of connect_handle: runs on every way the chain ends.
TeardownPool(pool, peer) == PoolRemove(pool, peer)

TeardownEvents(t, peer) == Append(t.events, PeerDisconnected(peer))

Teardown(peer, gen, res) ==
    LET t == connect_handle[peer][gen] IN
    /\ step' = Closed(peer, res)
    /\ outgoing_connections' = TeardownPool(outgoing_connections, peer)
    /\ connect_handle' = [connect_handle EXCEPT ![peer][gen] =
           [t EXCEPT !.pc = "closed", !.retries = 0, !.sent = 0, !.senders = {},
                     !.conn_rx = <<>>, !.sink = 0,
                     !.events = TeardownEvents(t, peer)]]
    /\ TaskFrame

\* A reactor that polls the spawned send_handle futures in any order.
RunnableInAnyOrder(t) == t.senders

\* The spawned send_handle futures of a channel that the reactor may poll next:
\* handle.spawn queues a future behind the futures spawned before it, and the
\* reactor polls a queued future for the first time in that order.
Runnable(t) == {k \in t.senders : \A j \in t.senders : k <= j}

\* A send_handle runs: the message enters the channel.  (Once the task is
\* closed conn_rx is gone and every send left fails: Teardown forgets them.)
SendHandle(peer, gen, k) ==
    /\ Running
    /\ gen \in Spawned(peer)
    /\ k \in Runnable(connect_handle[peer][gen])
    /\ step' = Other
    /\ connect_handle' = [connect_handle EXCEPT ![peer][gen] =
           [@ EXCEPT !.senders = @ \ {k}, !.conn_rx = Append(@, k)]]
    /\ UNCHANGED outgoing_connections
    /\ TaskFrame

\* network_config.tcp_connect_retry_timeout, in milliseconds
tcp_connect_retry_timeout == MaxTimeout

\* jitter: the interval times a random factor in [0, 1), in whole milliseconds.
Jitter(timeout) == IF timeout = 0 THEN {0} ELSE 0..(timeout - 1)

\* A strategy that hands out one delay more than max_tries.
RetryAllowedOnceMore(t, tries) == t.retries <= tries

\* Retry::spawn with FixedInterval.map(jitter).take(max_tries): a failed
\* attempt takes the next delay from the strategy, if one is left.
RetryAllowed(t, tries) == t.retries < tries

\* TcpStream::connect fails: Retry sleeps and runs the action again, or gives up.
ConnectFails(peer, gen) ==
    /\ Running
    /\ gen \in Spawned(peer)
    /\ connect_handle[peer][gen].pc = "connect"
    /\ IF RetryAllowed(connect_handle[peer][gen], max_tries)
       THEN /\ \E delay \in Jitter(tcp_connect_retry_timeout) :
                   step' = Delayed(peer, delay)
            /\ connect_handle' = [connect_handle EXCEPT ![peer][gen].retries = @ + 1]
            /\ UNCHANGED outgoing_connections
            /\ TaskFrame
       ELSE Teardown(peer, gen, "retries exhausted")

\* TcpStream::connect resolves; set_nodelay and set_keepalive run in the same
\* poll, and either may fail.
ConnectSucceeds(peer, gen, configured) ==
    /\ Running
    /\ gen \in Spawned(peer)
    /\ connect_handle[peer][gen].pc = "connect"
    /\ IF configured
       THEN /\ step' = Other
            /\ connect_handle' = [connect_handle EXCEPT ![peer][gen].pc = "pump"]
            /\ UNCHANGED outgoing_connections
            /\ TaskFrame
       ELSE Teardown(peer, gen, "socket option failed")

\* writer: conn_rx.forward(sink) moves the next message to the socket.
WriterForward(peer, gen) ==
    /\ Running
    /\ gen \in Spawned(peer)
    /\ connect_handle[peer][gen].pc = "pump"
    /\ connect_handle[peer][gen].conn_rx # <<>>
    /\ step' = Other
    /\ connect_handle' = [connect_handle EXCEPT ![peer][gen] =
           [@ EXCEPT !.conn_rx = Tail(@),
                     !.sink = Head(connect_handle[peer][gen].conn_rx)]]
    /\ UNCHANGED outgoing_connections
    /\ TaskFrame

\* writer completes: every Sender is dropped and the channel is drained.
WriterFinished(peer, gen) ==
    /\ Running
    /\ gen \in Spawned(peer)
    /\ connect_handle[peer][gen].pc = "pump"
    /\ connect_handle[peer][gen].conn_rx = <<>>
    /\ Senders(peer, gen) = 0
    /\ Teardown(peer, gen, "writer finished")

\* A reader that hands the decoded frame to the handler.
ReaderForwards(t, peer) == Append(t.events, MessageReceived(peer, "Status"))

\* reader: stream.for_each(result_ok), the events sent for a decoded frame.
ReaderEvents(t, peer) == t.events

ReaderItem(peer, gen) ==
    /\ Running
    /\ gen \in Spawned(peer)
    /\ connect_handle[peer][gen].pc = "pump"
    /\ step' = Decoded(peer)
    /\ connect_handle' = [connect_handle EXCEPT ![peer][gen].events =
           ReaderEvents(connect_handle[peer][gen], peer)]
    /\ UNCHANGED outgoing_connections
    /\ TaskFrame

\* select2 resolves because the reader ended, or with a read or write error,
\* whatever the other half is doing.
PumpResults == {"reader finished", "read error", "write error"}

PumpEnds(peer, gen, res) ==
    /\ Running
    /\ gen \in Spawned(peer)
    /\ connect_handle[peer][gen].pc = "pump"
    /\ Teardown(peer, gen, res)

\* ------------------------------------------------- incoming connections
\* pc: "none"      not accepted yet
\*     "accepted"  the listener closure holds the socket, admission pending
\*     "rejected"  dropped by the limit
\*     "handshake" connection_handler waits for the first frame
\*     "relay"     PeerConnected sent, frames are relayed
\*     "closed"    connection_handler has completed
NoSocket == [addr |-> 0, pc |-> "none", wire |-> <<>>, events |-> <<>>]

Accepted == {id \in SocketIds : connection_handler[id].pc # "none"}

NextSocketId == Cardinality(Accepted) + 1

InFrame == UNCHANGED <<configVars, outVars, handler_alive, runVars>>

\* listener.incoming().for_each: `let holder = Rc::downgrade(&counter)`
\* The remote address of an accepted socket: one per socket.
RemoteAddr(id) == id

Accept ==
    /\ Running
    /\ NextSocketId <= MaxSockets
    /\ step' = Other
    /\ incoming_connections_counter' = incoming_connections_counter + 1
    /\ connection_handler' = [connection_handler EXCEPT ![NextSocketId] =
           [NoSocket EXCEPT !.addr = RemoteAddr(NextSocketId), !.pc = "accepted"]]
    /\ server' = [pc |-> "check", id |-> NextSocketId]
    /\ InFrame

\* The limit check that admits one connection more.
OverLimitByTwo(count, limit) == count > limit + 1

\* `connections_count > incoming_connections_limit`
OverLimit(count, limit) == count > limit

\* A Weak holder is dropped.
DropHolder(count) == count - 1

\* The rest of the listener closure: reject and return, or spawn connection_handler.
AdmissionCheck ==
    /\ core = "running"
    /\ server.pc = "check"
    /\ step' = Other
    /\ server' = [pc |-> "listen", id |-> 0]
    /\ IF OverLimit(incoming_connections_counter, incoming_connections_limit)
       THEN /\ incoming_connections_counter' = DropHolder(incoming_connections_counter)
            /\ connection_handler' =
                   [connection_handler EXCEPT ![server.id].pc = "rejected"]
       ELSE /\ connection_handler' =
                   [connection_handler EXCEPT ![server.id].pc = "handshake"]
            /\ UNCHANGED incoming_connections_counter
    /\ InFrame

\* A gate that takes every well-formed first message for a Connect.
AnyFromRawLenient(raw) ==
    CASE raw = "Malformed" -> "Err"
      [] OTHER -> "Connect"

\* Any::from_raw on the first frame
AnyFromRaw(raw) ==
    CASE raw = "Connect" -> "Connect"
      [] raw = "Malformed" -> "Err"
      [] OTHER -> "Other"

\* A holder that is dropped only where the closure of .map runs: on Ok.
HolderKeptOnErr(count, res) ==
    IF res = "stream end" THEN DropHolder(count) ELSE count

\* connection_handler completes, with Ok or Err: Map drops its closure, and
\* the `holder` the closure owns with it.
HolderAfterExit(count, res) == DropHolder(count)

\* A listener that ends with the error of a connection_handler.
ServerStopsOnErr(srv, res) ==
    IF res = "stream end" THEN srv ELSE [pc |-> "stopped", id |-> 0]

\* The listener after a connection_handler has ended: the handler was spawned
\* with its error mapped by log_error, so the listener stream goes on.
ServerAfterExit(srv, res) == srv

\* An exit that tells the handler, as the teardown of an outgoing task does.
ExitAnnounced(s, res) == Append(s.events, PeerDisconnected(s.addr))

\* The events connection_handler has sent when it ends: .map_err(log_error)
\* logs the error and sends nothing.
ExitEvents(s, res) == s.events

InboundExit(id, res, s) ==
    /\ step' = Exited(s.addr, res)
    /\ connection_handler' = [connection_handler EXCEPT ![id] =
           [s EXCEPT !.pc = "closed", !.events = ExitEvents(s, res)]]
    /\ incoming_connections_counter' = HolderAfterExit(incoming_connections_counter, res)
    /\ server' = ServerAfterExit(server, res)
    /\ InFrame

\* The events sent for the first frame.
HandshakeEvents(s, raw) ==
    IF AnyFromRaw(raw) = "Connect"
    THEN Append(s.events, PeerConnected(s.addr, raw))
    ELSE s.events

\* stream.into_future() resolves with the first frame, an error or the end of
\* the stream; on a Connect, PeerConnected is sent and the relay starts.
Handshake(id, item) ==
    LET s == connection_handler[id]
        read == [s EXCEPT !.wire = Append(@, item), !.events = HandshakeEvents(s, item)]
    IN
    /\ Running
    /\ s.pc = "handshake"
    /\ CASE item = "end" -> InboundExit(id, "socket closed", s)
         [] item = "error" -> InboundExit(id, "read error", s)
         [] AnyFromRaw(item) = "Other" -> InboundExit(id, "not connect", read)
         [] AnyFromRaw(item) = "Err" -> InboundExit(id, "decode error", read)
         [] AnyFromRaw(item) = "Connect" /\ ~handler_alive ->
                InboundExit(id, "send failed", read)
         [] OTHER ->
                /\ step' = Other
                /\ connection_handler' =
                       [connection_handler EXCEPT ![id] = [read EXCEPT !.pc = "relay"]]
                /\ UNCHANGED <<incoming_connections_counter, server>>
                /\ InFrame

\* A relay that puts the newest frame first.
RelayNewestFirst(s, raw) == <<MessageReceived(s.addr, raw)>> \o s.events

\* The events sent for a relayed frame.
RelayEvents(s, raw) == Append(s.events, MessageReceived(s.addr, raw))

\* stream.for_each: the next frame, an error or the end of the stream.
Relay(id, item) ==
    LET s == connection_handler[id]
        read == [s EXCEPT !.wire = Append(@, item), !.events = RelayEvents(s, item)]
    IN
    /\ Running
    /\ s.pc = "relay"
    /\ CASE item = "end" -> InboundExit(id, "stream end", s)
         [] item = "error" -> InboundExit(id, "read error", s)
         [] ~handler_alive -> Len(s.wire) < MaxFrames /\ InboundExit(id, "send failed", read)
         [] OTHER ->
                /\ Len(s.wire) < MaxFrames
                /\ step' = Other
                /\ connection_handler' = [connection_handler EXCEPT ![id] = read]
                /\ UNCHANGED <<incoming_connections_counter, server>>
                /\ InFrame

\* The HandlerPart that owns network_rx goes away.
HandlerDropped ==
    /\ Running
    /\ handler_alive
    /\ step' = Other
    /\ handler_alive' = FALSE
    /\ UNCHANGED <<configVars, outVars, inVars, runVars>>

\* ----------------------------------------------------------------- shutdown
CancelCapacity == 1

\* cancel_sender.send(()).wait() inside the dispatcher
HandleShutdown ==
    /\ Running
    /\ step' = Shutdown
    /\ IF cancel < CancelCapacity
       THEN cancel' = cancel + 1 /\ UNCHANGED core
       ELSE core' = "blocked" /\ UNCHANGED cancel
    /\ UNCHANGED <<configVars, outVars, handler_alive, inVars>>

\* core.run: cancel_handler.into_future() resolves and the loop returns.
CoreRunReturns ==
    /\ Running
    /\ cancel > 0
    /\ step' = Other
    /\ cancel' = cancel - 1
    /\ core' = "stopped"
    /\ UNCHANGED <<configVars, outVars, handler_alive, inVars>>

\* ------------------------------------------------------------ specification
\* What a poll of the framed stream yields besides a frame.
StreamEnds == {"end", "error"}

Init ==
    /\ outgoing_connections_limit \in 0..NumPeers
    /\ incoming_connections_limit \in 0..MaxInLimit
    /\ max_tries \in 0..MaxRetries
    /\ outgoing_connections = [p \in Peers |-> NoEntry]
    /\ connect_handle = [p \in Peers |-> <<>>]
    /\ step = Other
    /\ handler_alive = TRUE
    /\ incoming_connections_counter = 0
    /\ server = [pc |-> "listen", id |-> 0]
    /\ connection_handler = [id \in SocketIds |-> NoSocket]
    /\ cancel = 0
    /\ core = "running"

Requests ==
    \/ \E peer \in Addressable : HandleSendMessage(peer)
    \/ \E peer \in Addressable : HandleDisconnectWithPeer(peer)

Outgoing ==
    \/ \E peer \in Peers, gen \in Gens, k \in 1..MaxSends : SendHandle(peer, gen, k)
    \/ \E peer \in Peers, gen \in Gens : ConnectFails(peer, gen)
    \/ \E peer \in Peers, gen \in Gens, configured \in BOOLEAN :
           ConnectSucceeds(peer, gen, configured)
    \/ \E peer \in Peers, gen \in Gens : WriterForward(peer, gen)
    \/ \E peer \in Peers, gen \in Gens : WriterFinished(peer, gen)
    \/ \E peer \in Peers, gen \in Gens : ReaderItem(peer, gen)
    \/ \E peer \in Peers, gen \in Gens, res \in PumpResults : PumpEnds(peer, gen, res)

Incoming ==
    \/ Accept
    \/ AdmissionCheck
    \/ \E id \in SocketIds, item \in RawMessages \cup StreamEnds : Handshake(id, item)
    \/ \E id \in SocketIds, item \in RawMessages \cup StreamEnds : Relay(id, item)

Next ==
    \/ Requests
    \/ Outgoing
    \/ Incoming
    \/ HandlerDropped
    \/ HandleShutdown
    \/ CoreRunReturns

Spec == Init /\ [][Next]_vars

\* The dispatcher and the outgoing connection tasks, with no incoming socket.
NextOutgoing == Requests \/ Outgoing

InitOutgoing == Init /\ incoming_connections_limit = 0

SpecOutgoing == InitOutgoing /\ [][NextOutgoing]_vars

\* The reactor polls every spawned send_handle, and the writer of a pumping
\* task whose channel holds a message.
SpecOutgoingFair ==
    /\ SpecOutgoing
    /\ \A p \in Peers, g \in Gens : WF_vars(WriterForward(p, g))
    /\ \A p \in Peers, g \in Gens, k \in 1..MaxSends : WF_vars(SendHandle(p, g, k))

\* The same, when every channel carries only the message that opened it,
\* every dial may use the whole retry budget, and the limit is one that some
\* request can meet.
OneMessage == \A p \in Peers : \A g \in Spawned(p) : connect_handle[p][g].sent <= 1

NextPool == NextOutgoing /\ OneMessage'

InitPool ==
    /\ InitOutgoing
    /\ max_tries = MaxRetries
    /\ outgoing_connections_limit < NumPeers

SpecPool == InitPool /\ [][NextPool]_vars

\* The dials of a pool of limit 1, for every retry budget.
InitRetry == InitOutgoing /\ outgoing_connections_limit = 1

SpecRetry == InitRetry /\ [][NextPool]_vars

\* The connections of the first peer, one after the other, with channels that
\* carry up to MaxSends messages and dials that are not retried; requests for
\* the other peers are handled while the pool is full.
InitSend == InitRetry /\ max_tries = 0

OnePeer == \A p \in Peers \ {1} : connect_handle[p] = <<>>

NextSend == NextOutgoing /\ OnePeer'

SpecSend == InitSend /\ [][NextSend]_vars

\* The whole run loop with its shutdown, for outgoing and incoming limits of 1,
\* dials that are not retried, channels that carry one message and sockets
\* that relay one frame.  The listener closure runs to its end, and the
\* reactor polls the future core.run waits for once it is notified.
OneFrame == \A id \in SocketIds : Len(connection_handler[id].wire) <= 2

InitRun ==
    /\ Init
    /\ outgoing_connections_limit = 1
    /\ incoming_connections_limit = 1
    /\ max_tries = 0

NextRun ==
    /\ Requests \/ Outgoing \/ Incoming \/ HandleShutdown \/ CoreRunReturns
    /\ OneMessage' /\ OneFrame'

SpecRun ==
    /\ InitRun /\ [][NextRun]_vars
    /\ WF_vars(AdmissionCheck)
    /\ WF_vars(CoreRunReturns)

\* The incoming connections server, with no request.
NextIncoming == Incoming \/ HandlerDropped

InitIncoming == Init /\ outgoing_connections_limit = 0 /\ max_tries = 0

SpecIncoming == InitIncoming /\ [][NextIncoming]_vars

\* ------------------------------------------------------------------ claims
\* A SendMessage request that the dispatcher has just rejected for the limit.
RejectedRequest(peer) == step = SendMessage(peer, PeerDisconnected(peer))

\* C1: the outgoing connections pool never holds more entries than
\* max_outgoing_connections; with a limit of 0 no entry and no connection
\* task is ever created.
C1_PoolWithinLimit ==
    /\ PoolLen(outgoing_connections) <= outgoing_connections_limit
    /\ outgoing_connections_limit = 0 =>
           \A p \in Peers : connect_handle[p] = <<>>

\* C1 witness: a full pool of limit 1 after a teardown and a second dial of
\* the peer, with a request for another peer just rejected.
C1_Witness ==
    /\ outgoing_connections_limit = 1
    /\ PoolLen(outgoing_connections) = 1
    /\ \E p \in Peers :
           /\ Len(connect_handle[p]) = 2
           /\ connect_handle[p][1].pc = "closed"
           /\ PoolGet(outgoing_connections, p) = 2
    /\ \E q \in Peers : RejectedRequest(q)

\* C2: a SendMessage for a peer without an entry, handled while the pool holds
\* max_outgoing_connections entries, spawns PeerDisconnected(peer) and changes
\* neither the pool nor any connection task.
C2_RejectionFrame ==
    [][\A b \in Peers :
          ( /\ step'.type = "SendMessage"
            /\ step'.peer = b
            /\ PoolGet(outgoing_connections, b) = NoEntry
            /\ PoolLen(outgoing_connections) >= outgoing_connections_limit )
          => ( /\ step'.spawned = PeerDisconnected(b)
               /\ outgoing_connections' = outgoing_connections
               /\ connect_handle' = connect_handle )]_vars

\* C2 witness: limit 1, peer 1 still dialing, the request for peer 2 rejected:
\* peer 2 has no entry and no task, peer 1 keeps both.
C2_Witness ==
    /\ outgoing_connections_limit = 1
    /\ RejectedRequest(2)
    /\ PoolGet(outgoing_connections, 2) = NoEntry
    /\ connect_handle[2] = <<>>
    /\ PoolGet(outgoing_connections, 1) = 1
    /\ connect_handle[1][1].pc = "connect"
    /\ connect_handle[1][1].senders = {1}

\* C3 (as claimed): the pool holds an entry for a peer exactly when a
\* connection task of the peer is dialing, retrying or pumping.
C3_EntryIffTaskActive ==
    \A p \in Peers :
        (PoolGet(outgoing_connections, p) # NoEntry)
            <=> (\E g \in Spawned(p) : Alive(connect_handle[p][g]))

\* How many times a task or socket has sent the event on network_tx.
Emitted(events, e) == Cardinality({i \in DOMAIN events : events[i] = e})

\* The results an outgoing connection task can end with.
TaskResults ==
    PumpResults \cup {"retries exhausted", "socket option failed", "writer finished"}

\* The task ends in this step.
Ends(t, u) == Alive(t) /\ ~Alive(u)

\* C4: a connection task that ends, whatever the result of its chain, leaves
\* the pool without an entry for its peer and has sent PeerDisconnected(peer)
\* exactly once, in the step in which the chain ends: never before, and
\* without waiting for the other half of the pump.
C4_TeardownOnEveryExit ==
    [][/\ \A p \in Peers : \A g \in Spawned(p) :
             LET t == connect_handle[p][g]
                 u == connect_handle'[p][g]
             IN  IF Ends(t, u)
                 THEN /\ step' \in {Closed(p, res) : res \in TaskResults}
                      /\ Emitted(t.events, PeerDisconnected(p)) = 0
                      /\ Emitted(u.events, PeerDisconnected(p)) = 1
                      /\ PoolGet(outgoing_connections', p) = NoEntry
                 ELSE Emitted(u.events, PeerDisconnected(p))
                          = Emitted(t.events, PeerDisconnected(p))
       /\ step'.type = "Closed" =>
             \E g \in Spawned(step'.peer) :
                 Ends(connect_handle[step'.peer][g], connect_handle'[step'.peer][g])]_vars

\* C4 witness: the writer of the first task of peer 1 has finished, with the
\* reader still running: the task is closed with one PeerDisconnected(1), and
\* the pool has no entry for peer 1.
C4_Witness ==
    /\ step = Closed(1, "writer finished")
    /\ connect_handle[1][1].pc = "closed"
    /\ connect_handle[1][1].events = <<PeerDisconnected(1)>>
    /\ PoolGet(outgoing_connections, 1) = NoEntry

\* C5 (as claimed): every frame the reader of an outgoing connection decodes
\* is sent on network_tx as MessageReceived(peer, payload).
C5_ReaderForwardsFrames ==
    [][step'.type = "Decoded" =>
          \E g \in Spawned(step'.peer), raw \in RawMessages :
              connect_handle'[step'.peer][g].events =
                  Append(connect_handle[step'.peer][g].events,
                         MessageReceived(step'.peer, raw))]_vars

\* C5 (amended): a frame the reader of an outgoing connection decodes is
\* dropped: no event is sent for it, and the connection tasks and the pool
\* stay as they are.
C5_ReaderDropsFrames ==
    [][step'.type = "Decoded" =>
          /\ connect_handle' = connect_handle
          /\ outgoing_connections' = outgoing_connections]_vars

\* C5 witness: the reader of the pumping task of peer 1 has decoded a frame,
\* and the task has sent no event.
C5_Witness ==
    /\ step = Decoded(1)
    /\ connect_handle[1][1].pc = "pump"
    /\ connect_handle[1][1].events = <<>>

\* On every connection the message written last is `sink`, the channel holds
\* the next ones in the order of their requests, and the send_handle futures
\* not yet run hold the rest.
InRequestOrder ==
    \A p \in Peers : \A g \in Spawned(p) :
        LET t == connect_handle[p][g] IN
        Alive(t) =>
            /\ \A i \in DOMAIN t.conn_rx : t.conn_rx[i] = t.sink + i
            /\ t.senders = (t.sink + Len(t.conn_rx) + 1)..t.sent

\* The k-th message requested on the g-th connection of the peer, which pumps.
Requested(p, g, k) ==
    /\ g \in Spawned(p)
    /\ connect_handle[p][g].pc = "pump"
    /\ k <= connect_handle[p][g].sent

\* The connection has written its k-th message to the socket, or has ended.
Written(p, g, k) ==
    /\ g \in Spawned(p)
    /\ \/ connect_handle[p][g].pc = "closed"
       \/ connect_handle[p][g].sink >= k

Admitted == {id \in SocketIds : connection_handler[id].pc \in {"handshake", "relay"}}

\* C7: the census never counts more than max_incoming_connections + 1
\* holders; it counts that many only during the admission check of a
\* connection, which is then rejected and leaves the census; and never more
\* than max_incoming_connections admitted connections are alive.
C7_IncomingWithinLimit ==
    /\ [](/\ incoming_connections_counter <= incoming_connections_limit + 1
          /\ incoming_connections_counter = incoming_connections_limit + 1
                 => server.pc = "check"
          /\ Cardinality(Admitted) <= incoming_connections_limit
          /\ server.pc = "listen"
                 => incoming_connections_counter = Cardinality(Admitted)
          /\ server.pc = "check"
                 => incoming_connections_counter = Cardinality(Admitted) + 1)
    /\ [][( /\ incoming_connections_counter = incoming_connections_limit + 1
            /\ server' # server )
          => ( /\ connection_handler'[server.id].pc = "rejected"
               /\ incoming_connections_counter' = incoming_connections_limit )]_vars

\* C7 witness: limit 1, the first socket relays, the second was rejected and
\* the census is back to 1.
C7_Witness ==
    /\ incoming_connections_limit = 1
    /\ connection_handler[1].pc = "relay"
    /\ connection_handler[2].pc = "rejected"
    /\ server.pc = "listen"
    /\ incoming_connections_counter = 1

\* The ways a connection_handler ends.
InboundResults ==
    {"socket closed", "read error", "not connect", "decode error",
     "send failed", "stream end"}

\* The admitted sockets whose connection_handler ends in this step.
Exiting == {id \in Admitted : connection_handler'[id].pc = "closed"}

\* C8: the census drops by one when the connection_handler of an admitted
\* socket ends, whatever its result, and for an admitted socket at no other
\* time: not while it waits for the handshake or relays, and not again once
\* it has ended.
C8_CensusDropsOnExit ==
    [][/\ \A id \in Exiting :
             /\ incoming_connections_counter' = incoming_connections_counter - 1
             /\ step' \in {Exited(connection_handler[id].addr, res) : res \in InboundResults}
       /\ step'.type = "Exited" => Cardinality(Exiting) = 1
       /\ incoming_connections_counter' < incoming_connections_counter
             => \/ Cardinality(Exiting) = 1
                \/ server.pc = "check" /\ connection_handler'[server.id].pc = "rejected"
       /\ \A id \in SocketIds :
             connection_handler[id].pc = "closed"
                 => connection_handler'[id] = connection_handler[id]]_vars

\* C8 witness: the first socket ended in the relay, because the event could not
\* be sent, and the second at the handshake; the census is empty again.
C8_Witness ==
    /\ step = Exited(RemoteAddr(2), "not connect")
    /\ connection_handler[1].pc = "closed"
    /\ Len(connection_handler[1].wire) = 2
    /\ ~handler_alive
    /\ connection_handler[2].pc = "closed"
    /\ incoming_connections_counter = 0

\* The socket read a first frame that is a Connect message.
ConnectFirst(s) == s.wire # <<>> /\ s.wire[1] = "Connect"

\* C9: a socket whose first frame is not a Connect message or does not
\* decode, or whose stream ends before a frame, has sent no event; its
\* connection_handler has read no further frame and has ended.
C9_NoEventWithoutConnect ==
    \A id \in SocketIds :
        LET s == connection_handler[id] IN
        ~ConnectFirst(s) =>
            /\ s.events = <<>>
            /\ s.pc # "relay"
            /\ s.wire # <<>> => s.pc = "closed" /\ Len(s.wire) = 1

\* C9 witness: one socket ended on a well-formed first frame that is no
\* Connect, another before any frame; neither has sent an event.
C9_Witness ==
    /\ connection_handler[1].pc = "closed"
    /\ connection_handler[1].wire = <<"Status">>
    /\ connection_handler[1].events = <<>>
    /\ connection_handler[2].pc = "closed"
    /\ connection_handler[2].wire = <<>>
    /\ connection_handler[2].events = <<>>

\* C10: a socket whose first frame is a Connect message has sent
\* PeerConnected(addr, connect) once and first, then one
\* MessageReceived(addr, raw) for each later frame, in the order of the frames.
C10_RelayInWireOrder ==
    \A id \in SocketIds :
        LET s == connection_handler[id] IN
        ConnectFirst(s) =>
            s.events = [i \in DOMAIN s.wire |->
                           IF i = 1 THEN PeerConnected(s.addr, s.wire[1])
                                    ELSE MessageReceived(s.addr, s.wire[i])]

\* C10 witness: a relaying socket that read Connect, Status, Malformed.
C10_Witness ==
    /\ connection_handler[1].pc = "relay"
    /\ connection_handler[1].wire = <<"Connect", "Status", "Malformed">>
    /\ Len(connection_handler[1].events) = 3

\* C11: a DisconnectWithPeer for a peer without an entry leaves the pool and
\* every connection task as they are and spawns PeerDisconnected(peer) once.
C11_DisconnectWithoutEntry ==
    [][\A p \in Peers :
          ( /\ step'.type = "DisconnectWithPeer"
            /\ step'.peer = p
            /\ outgoing_connections[p] = NoEntry )
          => ( /\ step'.spawned = PeerDisconnected(p)
               /\ outgoing_connections' = outgoing_connections
               /\ connect_handle' = connect_handle )]_vars

\* C11 witness: DisconnectWithPeer(2) handled for a peer that never had a
\* task, while peer 1 keeps its entry and its dialing task.
C11_Witness ==
    /\ step = DisconnectWithPeer(2, PeerDisconnected(2))
    /\ connect_handle[2] = <<>>
    /\ outgoing_connections[2] = NoEntry
    /\ outgoing_connections[1] = 1
    /\ connect_handle[1][1].pc = "connect"

\* C12 (as claimed): once a Shutdown request is handled, core.run returns,
\* whatever outgoing tasks and incoming sockets are alive.
C12_ShutdownTerminates == (step.type = "Shutdown") ~> (core = "stopped")

\* C13 (as claimed): the dispatcher never blocks while it delivers the
\* cancellation signal, also for a Shutdown handled before core.run has taken
\* the signal of an earlier one.
C13_ShutdownNeverBlocks == core # "blocked"

\* C14: a dial makes at most max_tries retries after its first attempt; every
\* failed attempt but the last allowed one is followed by one delay of at most
\* tcp_connect_retry_timeout, and a success by the pump, after exactly the
\* delays taken so far; the failure of the last allowed attempt ends the task
\* with its teardown, and an ended task makes no further attempt.
C14_RetryBudget ==
    /\ [](\A p \in Peers : \A g \in Spawned(p) : connect_handle[p][g].retries <= max_tries)
    /\ [][\A p \in Peers : \A g \in Spawned(p) :
             LET t == connect_handle[p][g]
                 u == connect_handle'[p][g]
             IN  /\ u.retries # t.retries /\ Alive(u) =>
                       /\ t.pc = "connect" /\ u.pc = "connect"
                       /\ u.retries = t.retries + 1
                       /\ t.retries < max_tries
                       /\ step' \in {Delayed(p, d) : d \in 0..tcp_connect_retry_timeout}
                 /\ (t.pc = "connect" /\ u.pc = "pump") => u.retries = t.retries
                 /\ (t.pc = "connect" /\ step' = Closed(p, "retries exhausted")
                         /\ u.pc = "closed") =>
                       /\ t.retries = max_tries
                       /\ outgoing_connections'[p] = NoEntry
                       /\ u.events = Append(t.events, PeerDisconnected(p))
                 /\ t.pc = "closed" => u = t]_vars
    /\ [][step'.type \in {"Delayed", "Closed"} =>
             \E g \in Spawned(step'.peer) :
                 connect_handle'[step'.peer][g] # connect_handle[step'.peer][g]]_vars

\* C14 witness: with a budget of one retry, the first task of peer 1 pumps
\* after one failed attempt and one delay, and its second task has just ended
\* because both of its attempts failed.
C14_Witness ==
    /\ max_tries = 1
    /\ step = Closed(1, "retries exhausted")
    /\ Len(connect_handle[1]) = 2
    /\ connect_handle[1][1].pc = "pump"
    /\ connect_handle[1][1].retries = 1
    /\ connect_handle[1][2].pc = "closed"

\* The task as it is once one more send_handle is spawned on its channel and
\* nothing else has happened to it.
WithSendHandle(t) ==
    [t EXCEPT !.sent = @ + 1, !.senders = @ \cup {t.sent + 1}]

\* Every task but the g-th of peer p is as it was, and no other task is new.
OthersUnchanged(p, g) ==
    /\ \A q \in Peers \ {p} : connect_handle'[q] = connect_handle[q]
    /\ \A h \in Spawned(p) \ {g} : connect_handle'[p][h] = connect_handle[p][h]
    /\ DOMAIN connect_handle'[p] = Spawned(p) \cup {g}

\* C15: a SendMessage for a peer with an entry spawns one send_handle on the
\* channel of that entry and nothing else: no new task, no limit check, no
\* PeerDisconnected, the pool as it was, also when the pool is full.
C15_SendOnExistingEntry ==
    [][\A p \in Peers :
          ( /\ step'.type = "SendMessage"
            /\ step'.peer = p
            /\ outgoing_connections[p] # NoEntry )
          => LET g == outgoing_connections[p] IN
             /\ step'.spawned = NoEvent
             /\ outgoing_connections' = outgoing_connections
             /\ connect_handle'[p][g] = WithSendHandle(connect_handle[p][g])
             /\ OthersUnchanged(p, g)]_vars

\* C15 witness: the pool is full with the entry of peer 1, whose channel has
\* been handed a second message by the request just handled.
C15_Witness ==
    /\ outgoing_connections_limit = 1
    /\ step = SendMessage(1, NoEvent)
    /\ outgoing_connections[1] = 1
    /\ Len(connect_handle[1]) = 1
    /\ connect_handle[1][1].sent = 2
    /\ 2 \in connect_handle[1][1].senders

\* C16: no socket has sent a PeerDisconnected, whether it was rejected, failed
\* the handshake or ended its relay, and no step of the listener or of a
\* connection_handler spawns an event: a PeerDisconnected comes from a
\* request or from the teardown of an outgoing task only.
C16_NoDisconnectFromIncoming ==
    /\ \A id \in SocketIds : \A i \in DOMAIN connection_handler[id].events :
           connection_handler[id].events[i][1] # "PeerDisconnected"
    /\ step.spawned # NoEvent =>
           /\ step.type \in {"SendMessage", "DisconnectWithPeer"}
           /\ step.spawned = PeerDisconnected(step.peer)

\* C16 witness: the first socket has ended its relay on a read error after
\* the second was rejected; the first has sent two events, the second none.
C16_Witness ==
    /\ step = Exited(RemoteAddr(1), "read error")
    /\ connection_handler[1].pc = "closed"
    /\ Len(connection_handler[1].events) = 2
    /\ connection_handler[2].pc = "rejected"
    /\ connection_handler[2].events = <<>>

\* The run loop, the dispatcher and the listener go on as before this step.
RunUntouched ==
    /\ core' = core /\ core = "running"
    /\ cancel' = cancel
    /\ server' = server /\ server.pc = "listen"
    /\ handler_alive' = handler_alive

\* C17: the end of an outgoing connection task, whatever its result, leaves
\* the run loop, the dispatcher and the listener running and changes no entry
\* or task of another peer and no socket; the end of a connection_handler
\* leaves them running too and changes no other socket, no entry and no task.
C17_FailureIsContained ==
    [][/\ step'.type = "Closed" =>
             /\ RunUntouched
             /\ connection_handler' = connection_handler
             /\ incoming_connections_counter' = incoming_connections_counter
             /\ \A q \in Peers \ {step'.peer} :
                    /\ outgoing_connections'[q] = outgoing_connections[q]
                    /\ connect_handle'[q] = connect_handle[q]
       /\ step'.type = "Exited" =>
             /\ RunUntouched
             /\ outgoing_connections' = outgoing_connections
             /\ connect_handle' = connect_handle
             /\ \A id \in SocketIds :
                    connection_handler[id].addr # step'.peer
                        => connection_handler'[id] = connection_handler[id]]_vars

\* C17 witness: the first task of peer 1 and the first socket, which sent a
\* malformed first frame, have ended; after that the listener admitted the
\* second socket, and the dispatcher has just spawned the task of peer 2.
C17_Witness ==
    /\ core = "running"
    /\ step = SendMessage(2, NoEvent)
    /\ Len(connect_handle[1]) = 1 /\ connect_handle[1][1].pc = "closed"
    /\ Len(connect_handle[2]) = 1 /\ outgoing_connections[2] = 1
    /\ connection_handler[1].pc = "closed"
    /\ connection_handler[1].wire = <<"Malformed">>
    /\ connection_handler[2].pc = "relay"

\* The connection tasks that are dialing, retrying or pumping.
AliveTasks ==
    {pg \in Peers \X Gens :
        pg[2] \in Spawned(pg[1]) /\ Alive(connect_handle[pg[1]][pg[2]])}

\* C18: the number of outgoing connection tasks that are alive is at most
\* max_outgoing_connections in every reachable state.
C18_AliveWithinLimit ==
    Cardinality(AliveTasks) <= outgoing_connections_limit

\* C19: a connection that a DisconnectWithPeer request has ended, for which
\* the dispatcher has therefore emitted PeerDisconnected, emits no second
\* PeerDisconnected from its teardown. The first task of a peer is alive
\* without its entry only after such a request.
C19_OneDisconnectPerConnection ==
    [][\A p \in Peers :
          (/\ Len(connect_handle[p]) >= 1
           /\ Alive(connect_handle[p][1])
           /\ outgoing_connections[p] # 1)
              => Emitted(connect_handle'[p][1].events, PeerDisconnected(p)) = 0]_vars

\* C20: a SendMessage request has exactly one of two outcomes. Either one
\* send_handle is spawned on the channel registered for the peer, the channel
\* of its entry or of a task spawned by this request, and the dispatcher puts
\* nothing into the channel itself, so it cannot suspend on a full channel;
\* or the pool is full and has no entry for the peer, PeerDisconnected(peer)
\* is emitted and the message reaches no channel and no socket.
C20_SendOrReject ==
    [][step'.type = "SendMessage" =>
          LET p == step'.peer
              handed ==
                  /\ step'.spawned = NoEvent
                  /\ outgoing_connections'[p] # NoEntry
                  /\ LET g == outgoing_connections'[p]
                         before == IF outgoing_connections[p] # NoEntry
                                   THEN connect_handle[p][g] ELSE NewTask
                     IN /\ outgoing_connections[p] \in {NoEntry, g}
                        /\ connect_handle'[p][g] = WithSendHandle(before)
                        /\ OthersUnchanged(p, g)
              rejected ==
                  /\ step'.spawned = PeerDisconnected(p)
                  /\ outgoing_connections[p] = NoEntry
                  /\ PoolLen(outgoing_connections) >= outgoing_connections_limit
                  /\ connect_handle' = connect_handle
                  /\ outgoing_connections' = outgoing_connections
          IN (handed \/ rejected) /\ ~(handed /\ rejected)]_vars

\* C20 witness: two messages for peer 1 wait in send_handles that have not
\* run, its task still dialing, and the dispatcher has gone on to reject a
\* request for peer 2.
C20_Witness ==
    /\ step = SendMessage(2, PeerDisconnected(2))
    /\ outgoing_connections[1] = 1
    /\ Len(connect_handle[1]) = 1
    /\ connect_handle[1][1].pc = "connect"
    /\ connect_handle[1][1].senders = {1, 2}
    /\ connect_handle[1][1].conn_rx = <<>>

====
